---- MODULE Spec2Model ----
(***************************************************************************)
(* Static K-dimensional range tree of src/src/RangeTree.h: the generic     *)
(* template RangeTree<T,K> and its specialization RangeTree<T,1>.          *)
(*                                                                         *)
(* A pointer (std::unique_ptr) is a sequence of length 0 (nullptr) or 1    *)
(* (the owned object).  A point (std::vector<T>) is a sequence of          *)
(* integers; the C++ index i is the TLA+ index i + 1.                      *)
(***************************************************************************)
EXTENDS Integers, Sequences, FiniteSets, TLC

\* Longest input point list of Spec.
MaxPoints == 3
\* Longest input point list of SpecDim, where points and bounds have K-1, K or
\* K+1 coordinates.
MaxPointsDim == 1

\* Longest input point list of SpecNest.
MaxPointsNest == 2

\* Longest input point list of SpecPair.
MaxPointsPair == 3

\* The template instantiations RangeTree<int,K> explored.
Dims == {1, 2}
\* The template instantiations explored by SpecNest, which has no queries.
NestDims == {1, 2, 3, 4}
\* The template instantiation explored by SpecPair: the smallest one that has
\* two values of dim.
PairDims == {2}
\* The coordinate values of the stored points (T = int).
Coords == {0, 1}
\* The coordinate values of the bounds and query points of Spec: below, among
\* and above the stored values.
BoundCoords == {0, 1, 2}

VARIABLES
    K,        \* the template parameter of the tree object
    points,   \* the caller's point list, passed to the constructor by const reference
    pc,       \* "new": not constructed, "built": constructed, "thrown": the constructor threw
    tree,     \* the RangeTree object [K, dimension, root], once constructed; else Null
    call,     \* the last query: [op, low, high]
    threw,    \* the last query threw std::invalid_argument
    result,   \* the vector the last rangeSearch returned
    found,    \* the bool the last search returned
    visited   \* the nodes the last query's rangeSearchDim was entered with, as paths from the root

vars == <<K, points, pc, tree, call, threw, result, found, visited>>

Null == <<>>

\* point[i] of the C++ code.
At(point, i) == point[i + 1]

\* All vectors with a length in lengths and coordinates in coords.
Vectors(lengths, coords) == UNION {[1..n -> coords] : n \in lengths}

\* All point lists of at most maxLen such vectors.
PointLists(lengths, coords, maxLen) == UNION {[1..n -> Vectors(lengths, coords)] : n \in 0..maxLen}

----------------------------------------------------------------------------
\* A constructor that forgets to sort: the copy is left in input order.
StdSortOmitted(pts, key) == {pts}

\* A sort with the comparator turned round: the copy ends in descending order.
StdSortDescending(pts, key) ==
    LET n == Len(pts)
        all == {[i \in 1..n |-> pts[f[i]]] : f \in Permutations(1..n)}
    IN  {s \in all : \A i \in 1..(n - 1) : ~(At(s[i], key) < At(s[i + 1], key))}

(* std::sort with the comparator a[key] < b[key]: the order of elements    *)
(* with equal keys is unspecified, so every sorted permutation is an       *)
(* outcome.                                                                *)
StdSort(pts, key) ==
    LET n == Len(pts)
        all == {[i \in 1..n |-> pts[f[i]]] : f \in Permutations(1..n)}
    IN  {s \in all : \A i \in 1..(n - 1) : ~(At(s[i + 1], key) < At(s[i], key))}

\* A validation loop off by one: a point of exactly k coordinates is rejected.
SomePointShorterOrEqual(pts, k) == \E i \in 1..Len(pts) : Len(pts[i]) <= k

\* The validation loop of both constructors: some point has fewer than k coordinates.
SomePointShorter(pts, k) == \E i \in 1..Len(pts) : Len(pts[i]) < k

\* Node(pt) plus the fields buildTree fills in.
Node(pt, l, r, nx, cs) ==
    [point |-> pt, left |-> l, right |-> r, next_level_tree |-> nx, canonical_subset |-> cs]

\* The outcome of a constructor or of buildTree: it threw, or it produced ptr.
Threw == [threw |-> TRUE, ptr |-> Null]
Made(p) == [threw |-> FALSE, ptr |-> p]

RECURSIVE buildTree1WholeList(_, _, _)
\* A 1-D buildTree that gives every node the whole sorted list, not the slice
\* [begin, end), for canonical subset.
buildTree1WholeList(pts, begin, end) ==
    IF begin >= end THEN Null
    ELSE LET mid == begin + (end - begin) \div 2
         IN  <<Node(pts[mid + 1],
                    buildTree1WholeList(pts, begin, mid),
                    buildTree1WholeList(pts, mid + 1, end),
                    Null,
                    pts)>>

RECURSIVE buildTree1(_, _, _)
\* RangeTree<T,1>::buildTree over the slice [begin, end) of pts.
buildTree1(pts, begin, end) ==
    IF begin >= end THEN Null
    ELSE LET mid == begin + (end - begin) \div 2
         IN  <<Node(pts[mid + 1],
                    buildTree1(pts, begin, mid),
                    buildTree1(pts, mid + 1, end),
                    Null,
                    SubSeq(pts, begin + 1, end))>>

\* RangeTree<T,1>::RangeTree(points, dim): the set of outcomes; each made ptr
\* is the tree object [dimension, root].
RangeTree1(pts, dim) ==
    IF pts = <<>> THEN {Made(<<[K |-> 1, dimension |-> dim, root |-> Null]>>)}
    ELSE IF SomePointShorter(pts, 1) THEN {Threw}
    ELSE {Made(<<[K |-> 1, dimension |-> dim, root |-> buildTree1(sorted_points, 0, Len(sorted_points))]>>) :
              sorted_points \in StdSort(pts, 0)}

RECURSIVE buildTree(_, _, _, _, _)
RECURSIVE RangeTree(_, _, _)

RECURSIVE buildTreeFirstElement(_, _, _, _, _)
\* A buildTree that splits the slice at its first element, not at its median.
buildTreeFirstElement(pts, begin, end, dimension, k) ==
    IF begin >= end THEN {Made(Null)}
    ELSE LET mid == begin
             canonical_subset == SubSeq(pts, begin + 1, end)
             lefts == buildTreeFirstElement(pts, begin, mid, dimension, k)
             rights == buildTreeFirstElement(pts, mid + 1, end, dimension, k)
             nexts == IF dimension + 1 < k
                      THEN RangeTree(canonical_subset, dimension + 1, k - 1)
                      ELSE {Made(Null)}
         IN  {IF l.threw \/ r.threw \/ nx.threw
              THEN Threw
              ELSE Made(<<Node(pts[mid + 1], l.ptr, r.ptr, nx.ptr, canonical_subset)>>) :
                  l \in lefts, r \in rights, nx \in nexts}

\* RangeTree<T,k>::buildTree over the slice [begin, end) of pts, in a tree
\* whose member dimension is dimension: the set of outcomes.
buildTree(pts, begin, end, dimension, k) ==
    IF begin >= end THEN {Made(Null)}
    ELSE LET mid == begin + (end - begin) \div 2
             canonical_subset == SubSeq(pts, begin + 1, end)
             lefts == buildTree(pts, begin, mid, dimension, k)
             rights == buildTree(pts, mid + 1, end, dimension, k)
             nexts == IF dimension + 1 < k
                      THEN RangeTree(canonical_subset, dimension + 1, k - 1)
                      ELSE {Made(Null)}
         IN  {IF l.threw \/ r.threw \/ nx.threw
              THEN Threw
              ELSE Made(<<Node(pts[mid + 1], l.ptr, r.ptr, nx.ptr, canonical_subset)>>) :
                  l \in lefts, r \in rights, nx \in nexts}

\* A constructor that takes an empty point list for an error.
RangeTreeRejectingEmpty(pts, dim, k) ==
    IF pts = <<>> \/ SomePointShorter(pts, k) THEN {Threw}
    ELSE UNION {
           {IF b.threw THEN Threw
            ELSE Made(<<[K |-> k, dimension |-> dim, root |-> b.ptr]>>) :
                b \in buildTree(sorted_points, 0, Len(sorted_points), dim, k)} :
               sorted_points \in StdSort(pts, IF k = 1 THEN 0 ELSE dim)}

\* RangeTree<T,k>::RangeTree(points, dim); k = 1 is the specialization.
RangeTree(pts, dim, k) ==
    IF k = 1 THEN RangeTree1(pts, dim)
    ELSE IF pts = <<>> THEN {Made(<<[K |-> k, dimension |-> dim, root |-> Null]>>)}
    ELSE IF SomePointShorter(pts, k) THEN {Threw}
    ELSE UNION {
           {IF b.threw THEN Threw
            ELSE Made(<<[K |-> k, dimension |-> dim, root |-> b.ptr]>>) :
                b \in buildTree(sorted_points, 0, Len(sorted_points), dim, k)} :
               sorted_points \in StdSort(pts, dim)}

RECURSIVE CtorReads(_, _, _)
RECURSIVE BuildReadsPassingK(_, _, _, _)
\* A buildTree that hands its template parameter, not dimension + 1, to the
\* constructor of the associated tree.
BuildReadsPassingK(begin, end, dimension, k) ==
    IF begin >= end THEN {}
    ELSE LET mid == begin + (end - begin) \div 2
         IN  BuildReadsPassingK(begin, mid, dimension, k)
                 \cup BuildReadsPassingK(mid + 1, end, dimension, k)
                 \cup (IF dimension + 1 < k
                       THEN CtorReads(end - begin, k, k - 1)
                       ELSE {})

RECURSIVE BuildReads(_, _, _, _)
\* The coordinate indices that points are indexed with below
\* RangeTree<T,k>::buildTree over a slice [begin, end): those of the
\* constructors of the associated trees, one per node, each over the node's
\* canonical subset of end - begin points.
BuildReads(begin, end, dimension, k) ==
    IF begin >= end THEN {}
    ELSE LET mid == begin + (end - begin) \div 2
         IN  BuildReads(begin, mid, dimension, k)
                 \cup BuildReads(mid + 1, end, dimension, k)
                 \cup (IF dimension + 1 < k
                       THEN CtorReads(end - begin, dimension + 1, k - 1)
                       ELSE {})

\* The coordinate indices that points are indexed with by the constructor
\* RangeTree<T,k>(points, dim), given n points that pass its validation, and by
\* the constructors below it: the sort key, a[0] in the specialization and
\* a[dim] in the generic template.
CtorReads(n, dim, k) ==
    IF n = 0 THEN {}
    ELSE IF k = 1 THEN {0}
    ELSE {dim} \cup BuildReads(0, n, dim, k)

----------------------------------------------------------------------------
\* What a query hands back: whether it threw, the vector rangeSearch returned,
\* the bool search returned, and the nodes rangeSearchDim was entered with.
Outcome(t, res, f, vis) == [threw |-> t, result |-> res, found |-> f, visited |-> vis]

\* isPointInRange with exclusive bounds.
isPointInRangeExclusive(point, low, high, k) ==
    \A i \in 0..(k - 1) : ~(At(point, i) <= At(low, i) \/ At(point, i) >= At(high, i))

\* isPointInRange that forgets the upper bound.
isPointInRangeLowOnly(point, low, high, k) ==
    \A i \in 0..(k - 1) : ~(At(point, i) < At(low, i))

\* isPointInRange that compares every coordinate the three vectors have.
isPointInRangeAllCoords(point, low, high, k) ==
    LET Min(a, b) == IF a < b THEN a ELSE b
        m == Min(Len(point), Min(Len(low), Len(high)))
    IN  \A i \in 0..(m - 1) : ~(At(point, i) < At(low, i) \/ At(point, i) > At(high, i))

\* RangeTree<T,k>::isPointInRange.
isPointInRange(point, low, high, k) ==
    \A i \in 0..(k - 1) : ~(At(point, i) < At(low, i) \/ At(point, i) > At(high, i))

RECURSIVE rangeSearchDimSkippingEqual(_, _, _, _, _, _)
\* rangeSearchDim that takes a node equal to low[dimension] for one below the
\* range, so that the node and its left subtree are skipped.
rangeSearchDimSkippingEqual(node, low, high, dimension, k, path) ==
    IF node = Null THEN [result |-> <<>>, visited |-> <<>>]
    ELSE LET n == node[1]
             l == rangeSearchDimSkippingEqual(n.left, low, high, dimension, k, Append(path, "L"))
             r == rangeSearchDimSkippingEqual(n.right, low, high, dimension, k, Append(path, "R"))
         IN  IF At(n.point, dimension) <= At(low, dimension)
             THEN [result |-> r.result, visited |-> <<path>> \o r.visited]
             ELSE IF At(n.point, dimension) > At(high, dimension)
             THEN [result |-> l.result, visited |-> <<path>> \o l.visited]
             ELSE [result |-> (IF isPointInRange(n.point, low, high, k) THEN <<n.point>> ELSE <<>>)
                                  \o l.result \o r.result,
                   visited |-> <<path>> \o l.visited \o r.visited]

RECURSIVE rangeSearchDimUnpruned(_, _, _, _, _, _)
\* rangeSearchDim that descends into both children of every node.
rangeSearchDimUnpruned(node, low, high, dimension, k, path) ==
    IF node = Null THEN [result |-> <<>>, visited |-> <<>>]
    ELSE LET n == node[1]
             l == rangeSearchDimUnpruned(n.left, low, high, dimension, k, Append(path, "L"))
             r == rangeSearchDimUnpruned(n.right, low, high, dimension, k, Append(path, "R"))
         IN  [result |-> (IF isPointInRange(n.point, low, high, k) THEN <<n.point>> ELSE <<>>)
                             \o l.result \o r.result,
              visited |-> <<path>> \o l.visited \o r.visited]

RECURSIVE rangeSearchDimSortKeyOnly(_, _, _, _, _, _)
\* rangeSearchDim that appends every node within the bounds on the sort
\* coordinate, without looking at the other coordinates.
rangeSearchDimSortKeyOnly(node, low, high, dimension, k, path) ==
    IF node = Null THEN [result |-> <<>>, visited |-> <<>>]
    ELSE LET n == node[1]
             l == rangeSearchDimSortKeyOnly(n.left, low, high, dimension, k, Append(path, "L"))
             r == rangeSearchDimSortKeyOnly(n.right, low, high, dimension, k, Append(path, "R"))
         IN  IF At(n.point, dimension) < At(low, dimension)
             THEN [result |-> r.result, visited |-> <<path>> \o r.visited]
             ELSE IF At(n.point, dimension) > At(high, dimension)
             THEN [result |-> l.result, visited |-> <<path>> \o l.visited]
             ELSE [result |-> <<n.point>> \o l.result \o r.result,
                   visited |-> <<path>> \o l.visited \o r.visited]

RECURSIVE rangeSearchDim(_, _, _, _, _, _)
\* RangeTree<T,k>::rangeSearchDim entered with node (reached by path): the
\* points it appends to result, in order, and the nodes it is entered with.
rangeSearchDim(node, low, high, dimension, k, path) ==
    IF node = Null THEN [result |-> <<>>, visited |-> <<>>]
    ELSE LET n == node[1]
             l == rangeSearchDim(n.left, low, high, dimension, k, Append(path, "L"))
             r == rangeSearchDim(n.right, low, high, dimension, k, Append(path, "R"))
         IN  IF At(n.point, dimension) < At(low, dimension)
             THEN [result |-> r.result, visited |-> <<path>> \o r.visited]
             ELSE IF At(n.point, dimension) > At(high, dimension)
             THEN [result |-> l.result, visited |-> <<path>> \o l.visited]
             ELSE [result |-> (IF isPointInRange(n.point, low, high, k) THEN <<n.point>> ELSE <<>>)
                                  \o l.result \o r.result,
                   visited |-> <<path>> \o l.visited \o r.visited]

\* rangeSearch that wants bounds of exactly K coordinates.
rangeSearchKExactSize(t, low, high) ==
    IF Len(low) # t.K \/ Len(high) # t.K THEN Outcome(TRUE, <<>>, FALSE, <<>>)
    ELSE IF t.root = Null THEN Outcome(FALSE, <<>>, FALSE, <<>>)
    ELSE LET s == rangeSearchDim(t.root, low, high, t.dimension, t.K, <<>>)
         IN  Outcome(FALSE, s.result, FALSE, s.visited)

\* RangeTree<T,k>::rangeSearch on the tree object t, k >= 2.
rangeSearchK(t, low, high) ==
    IF Len(low) < t.K \/ Len(high) < t.K THEN Outcome(TRUE, <<>>, FALSE, <<>>)
    ELSE IF t.root = Null THEN Outcome(FALSE, <<>>, FALSE, <<>>)
    ELSE LET s == rangeSearchDim(t.root, low, high, t.dimension, t.K, <<>>)
         IN  Outcome(FALSE, s.result, FALSE, s.visited)

\* RangeTree<T,k>::search, k >= 2.
searchK(t, point) ==
    IF Len(point) < t.K THEN Outcome(TRUE, <<>>, FALSE, <<>>)
    ELSE LET q == rangeSearchK(t, point, point)
         IN  Outcome(q.threw, <<>>, q.result # <<>>, q.visited)

\* RangeTree<T,1>::isPointInRange (declared and defined, never called).
isPointInRange1(point, low, high) == At(point, 0) >= low /\ At(point, 0) <= high

RECURSIVE rangeSearchDim1RightOnly(_, _, _, _)
\* 1-D rangeSearchDim that, at a node within the range, forgets the left subtree.
rangeSearchDim1RightOnly(node, low, high, path) ==
    IF node = Null THEN [result |-> <<>>, visited |-> <<>>]
    ELSE LET n == node[1]
             l == rangeSearchDim1RightOnly(n.left, low, high, Append(path, "L"))
             r == rangeSearchDim1RightOnly(n.right, low, high, Append(path, "R"))
         IN  IF At(n.point, 0) < low
             THEN [result |-> r.result, visited |-> <<path>> \o r.visited]
             ELSE IF At(n.point, 0) > high
             THEN [result |-> l.result, visited |-> <<path>> \o l.visited]
             ELSE [result |-> <<n.point>> \o r.result,
                   visited |-> <<path>> \o r.visited]

RECURSIVE rangeSearchDim1(_, _, _, _)
\* RangeTree<T,1>::rangeSearchDim: low and high are single values.
rangeSearchDim1(node, low, high, path) ==
    IF node = Null THEN [result |-> <<>>, visited |-> <<>>]
    ELSE LET n == node[1]
             l == rangeSearchDim1(n.left, low, high, Append(path, "L"))
             r == rangeSearchDim1(n.right, low, high, Append(path, "R"))
         IN  IF At(n.point, 0) < low
             THEN [result |-> r.result, visited |-> <<path>> \o r.visited]
             ELSE IF At(n.point, 0) > high
             THEN [result |-> l.result, visited |-> <<path>> \o l.visited]
             ELSE [result |-> <<n.point>> \o l.result \o r.result,
                   visited |-> <<path>> \o l.visited \o r.visited]

\* RangeTree<T,1>::rangeSearch.
rangeSearch1(t, low, high) ==
    IF Len(low) < 1 \/ Len(high) < 1 THEN Outcome(TRUE, <<>>, FALSE, <<>>)
    ELSE IF t.root = Null THEN Outcome(FALSE, <<>>, FALSE, <<>>)
    ELSE LET s == rangeSearchDim1(t.root, At(low, 0), At(high, 0), <<>>)
         IN  Outcome(FALSE, s.result, FALSE, s.visited)

\* RangeTree<T,1>::search.
search1(t, point) ==
    IF Len(point) < 1 THEN Outcome(TRUE, <<>>, FALSE, <<>>)
    ELSE LET low == <<At(point, 0)>>
             high == <<At(point, 0)>>
             q == rangeSearch1(t, low, high)
         IN  Outcome(q.threw, <<>>, q.result # <<>>, q.visited)

\* The public rangeSearch and search of the tree object t: the template
\* parameter selects the generic class or the specialization.
rangeSearch(t, low, high) == IF t.K = 1 THEN rangeSearch1(t, low, high) ELSE rangeSearchK(t, low, high)
search(t, point) == IF t.K = 1 THEN search1(t, point) ELSE searchK(t, point)

----------------------------------------------------------------------------
NoCall == [op |-> "none", low |-> <<>>, high |-> <<>>]

\* Before construction: the caller has chosen K and holds a list of at most
\* maxLen points, each of K - 1 up to K + extra coordinates.
InitWith(extra, maxLen) ==
    /\ K \in Dims
    /\ points \in PointLists((K - 1)..(K + extra), Coords, maxLen)
    /\ pc = "new"
    /\ tree = Null
    /\ call = NoCall
    /\ threw = FALSE
    /\ result = <<>>
    /\ found = FALSE
    /\ visited = <<>>

\* A constructor that sorts the caller's list instead of a copy of it.
ConstructInPlace ==
    /\ pc = "new"
    /\ \E dim \in 0..(K - 1) : \E o \in RangeTree(points, dim, K) :
          /\ pc' = IF o.threw THEN "thrown" ELSE "built"
          /\ tree' = o.ptr
          /\ points' = IF o.threw THEN points
                       ELSE CHOOSE sorted \in StdSort(points, IF K = 1 THEN 0 ELSE dim) : TRUE
    /\ UNCHANGED <<K, call, threw, result, found, visited>>

\* RangeTree<int,K> tree(points, dim), dim < K.
Construct ==
    /\ pc = "new"
    /\ \E dim \in 0..(K - 1) : \E o \in RangeTree(points, dim, K) :
          /\ pc' = IF o.threw THEN "thrown" ELSE "built"
          /\ tree' = o.ptr
    /\ UNCHANGED <<K, points, call, threw, result, found, visited>>

\* tree.rangeSearch(low, high) with bounds of the given lengths; the caller is
\* single-threaded and calls once the previous answer has been taken.
RangeSearch(lengths, coords) ==
    /\ pc = "built"
    /\ call = NoCall
    /\ \E low, high \in Vectors(lengths, coords) :
          LET o == rangeSearch(tree[1], low, high)
          IN  /\ call' = [op |-> "rangeSearch", low |-> low, high |-> high]
              /\ threw' = o.threw
              /\ result' = o.result
              /\ found' = o.found
              /\ visited' = o.visited
    /\ UNCHANGED <<K, points, pc, tree>>

\* tree.search(point) with a point of one of the given lengths.
Search(lengths, coords) ==
    /\ pc = "built"
    /\ call = NoCall
    /\ \E point \in Vectors(lengths, coords) :
          LET o == search(tree[1], point)
          IN  /\ call' = [op |-> "search", low |-> point, high |-> point]
              /\ threw' = o.threw
              /\ result' = o.result
              /\ found' = o.found
              /\ visited' = o.visited
    /\ UNCHANGED <<K, points, pc, tree>>

\* The caller takes the answer (or catches the exception): the returned vector
\* goes out of scope and the tree is ready for the next query.
Return ==
    /\ pc = "built"
    /\ call # NoCall
    /\ call' = NoCall
    /\ threw' = FALSE
    /\ result' = <<>>
    /\ found' = FALSE
    /\ visited' = <<>>
    /\ UNCHANGED <<K, points, pc, tree>>

\* Spec: a stored point has K coordinates, or K - 1 (too few); so has a bound
\* or a query point.
UpTo(k) == (k - 1)..k
Init == InitWith(0, MaxPoints)
Next ==
    \/ Construct
    \/ RangeSearch(UpTo(K), BoundCoords)
    \/ Search(UpTo(K), BoundCoords)
    \/ Return
Spec == Init /\ [][Next]_vars

\* SpecDim: points, bounds and query points have K-1, K or K+1 coordinates.
Around(k) == (k - 1)..(k + 1)
InitDim == InitWith(1, MaxPointsDim)
NextDim ==
    \/ Construct
    \/ RangeSearch(Around(K), Coords)
    \/ Search(Around(K), Coords)
    \/ Return
SpecDim == InitDim /\ [][NextDim]_vars

\* SpecBuild: the constructions of Spec alone, without the queries.
SpecBuild == Init /\ [][Construct]_vars

\* SpecNest: construction alone, for K up to 4, from points of K - 1 or K
\* coordinates.
InitNest ==
    /\ K \in NestDims
    /\ points \in PointLists((K - 1)..K, Coords, MaxPointsNest)
    /\ pc = "new"
    /\ tree = Null
    /\ call = NoCall
    /\ threw = FALSE
    /\ result = <<>>
    /\ found = FALSE
    /\ visited = <<>>
SpecNest == InitNest /\ [][Construct]_vars

\* SpecPair: trees for K = 2 built from valid points with either dim < K and
\* queried with arguments of K coordinates.
InitPair ==
    /\ K \in PairDims
    /\ points \in PointLists(K..K, Coords, MaxPointsPair)
    /\ pc = "new"
    /\ tree = Null
    /\ call = NoCall
    /\ threw = FALSE
    /\ result = <<>>
    /\ found = FALSE
    /\ visited = <<>>
NextPair ==
    \/ Construct
    \/ RangeSearch(K..K, Coords)
    \/ Search(K..K, Coords)
    \/ Return
SpecPair == InitPair /\ [][NextPair]_vars

----------------------------------------------------------------------------
(* Properties.                                                             *)

Range(seq) == {seq[i] : i \in DOMAIN seq}
Count(seq, x) == Cardinality({i \in DOMAIN seq : seq[i] = x})
SameMultiset(a, b) ==
    /\ Len(a) = Len(b)
    /\ \A x \in Range(a) \cup Range(b) : Count(a, x) = Count(b, x)

\* A vector with at least K coordinates.
LongEnough(v) == Len(v) >= K
\* The first K coordinates of p lie in [low, high], bounds included.
Inside(p, low, high) == \A i \in 1..K : low[i] <= p[i] /\ p[i] <= high[i]
\* The points of the caller's list that lie in [low, high], in input order.
Qualifying(low, high) == SelectSeq(points, LAMBDA p : Inside(p, low, high))
\* p and q agree on the first K coordinates.
Agree(p, q) == \A i \in 1..K : p[i] = q[i]
\* The first K coordinates of v.
Truncated(v) == SubSeq(v, 1, K)
\* The last query was op and both its arguments had at least K coordinates.
Asked(op) ==
    /\ pc = "built"
    /\ call.op = op
    /\ LongEnough(call.low)
    /\ LongEnough(call.high)

\* C1: on a tree built from points of at least K coordinates, rangeSearch with
\* bounds of at least K coordinates and low <= high on every axis returns
\* exactly the multiset of the points lying in the box, bounds included.
C1_RangeSearchExact ==
    (Asked("rangeSearch") /\ Inside(call.low, call.low, call.high))
        => (~threw /\ SameMultiset(result, Qualifying(call.low, call.high)))

\* C1 witness: a 2-D tree of three points answered a proper box with a point
\* stored twice, lying on the lower bound of some axis.
C1_Witness ==
    /\ Asked("rangeSearch") /\ ~threw
    /\ K = 2 /\ Len(points) = 3
    /\ call.low # call.high
    /\ Inside(call.low, call.low, call.high)
    /\ Len(result) = 2 /\ result[1] = result[2]
    /\ \E i \in 1..K : result[1][i] = call.low[i]

\* C2: search(p) is true exactly when a stored point agrees with p on the
\* first K coordinates, and exactly when rangeSearch(p, p) is not empty.
C2_SearchExact ==
    Asked("search")
        => /\ ~threw
           /\ found <=> (\E i \in DOMAIN points : Agree(points[i], call.low))
           /\ found <=> (rangeSearch(tree[1], call.low, call.low).result # <<>>)

\* C2 witness: a search in a 2-D tree of three points went past the root and
\* found its point.
C2_Witness ==
    /\ Asked("search") /\ found
    /\ K = 2 /\ Len(points) = 3
    /\ Len(visited) >= 2
    /\ ~Agree(tree[1].root[1].point, call.low)

\* C3: rangeSearch with low above high on some axis returns nothing and does
\* not throw.
C3_InvertedEmpty ==
    (Asked("rangeSearch") /\ \E i \in 1..K : call.low[i] > call.high[i])
        => (~threw /\ result = <<>>)

\* C3 witness: a 2-D tree sorted by coordinate 0 was asked a box inverted on
\* coordinate 1 only, whose coordinate-0 interval holds a stored point.
C3_Witness ==
    /\ Asked("rangeSearch") /\ ~threw
    /\ K = 2 /\ tree[1].dimension = 0
    /\ call.low[1] <= call.high[1] /\ call.low[2] > call.high[2]
    /\ \E i \in DOMAIN points :
          call.low[1] <= points[i][1] /\ points[i][1] <= call.high[1]
    /\ result = <<>>

\* C4 as claimed: on a tree built from an empty list every query returns
\* empty or false and none throws, whatever the arguments.
C4_Original ==
    (pc = "built" /\ points = <<>> /\ call # NoCall)
        => (~threw /\ result = <<>> /\ ~found)

\* C4: an empty list builds a tree without root; on it a query whose arguments
\* have at least K coordinates returns empty or false and visits nothing, and
\* a query with a shorter argument throws.
C4_EmptyTree ==
    (points = <<>> /\ pc # "new")
        => /\ pc = "built"
           /\ tree # Null
           /\ tree[1].root = Null
           /\ call # NoCall
                 => /\ threw <=> ~(LongEnough(call.low) /\ LongEnough(call.high))
                    /\ result = <<>>
                    /\ ~found
                    /\ visited = <<>>

\* C4 witness: a search with K + 1 coordinates on the empty tree returned false.
C4_Witness ==
    /\ points = <<>> /\ pc = "built"
    /\ call.op = "search" /\ Len(call.low) = K + 1
    /\ ~threw /\ ~found

\* C5: construction throws exactly when some point has fewer than K
\* coordinates, wherever it is in the list, and then produces no tree;
\* otherwise it produces one.
C5_ConstructValidation ==
    pc # "new"
        => /\ pc = "thrown" <=> (\E i \in DOMAIN points : Len(points[i]) < K)
           /\ pc = "thrown" => tree = Null
           /\ pc = "built" => tree # Null

\* C5 witness: construction threw for three points of which only the second
\* is too short.
C5_Witness ==
    /\ pc = "thrown" /\ K = 2 /\ Len(points) = 3
    /\ Len(points[1]) = K /\ Len(points[2]) < K /\ Len(points[3]) = K

\* C6: rangeSearch throws exactly when low or high has fewer than K
\* coordinates, search exactly when its point has; a query that throws has
\* visited no node and produced nothing.
C6_QueryValidation ==
    (pc = "built" /\ call # NoCall)
        => /\ threw <=> ~(LongEnough(call.low) /\ LongEnough(call.high))
           /\ threw => (visited = <<>> /\ result = <<>> /\ ~found)

\* C6 witness: on a tree with a node, rangeSearch threw for a high that is too
\* short next to a low that is longer than K.
C6_Witness ==
    /\ pc = "built" /\ tree[1].root # Null
    /\ call.op = "rangeSearch" /\ threw
    /\ Len(call.low) > K /\ Len(call.high) < K

\* C7: points longer than K are accepted at construction, bounds and query
\* points longer than K by the queries, and the answer is the one for the
\* bounds cut to K coordinates, decided by the first K coordinates of the
\* stored points.
C7_ExtraCoordinatesIgnored ==
    /\ (pc # "new" /\ \A i \in DOMAIN points : LongEnough(points[i])) => pc = "built"
    /\ Asked("rangeSearch")
          => /\ ~threw
             /\ result = rangeSearch(tree[1], Truncated(call.low), Truncated(call.high)).result
             /\ SameMultiset(result, Qualifying(call.low, call.high))
    /\ Asked("search")
          => /\ ~threw
             /\ found = search(tree[1], Truncated(call.low)).found
             /\ found <=> (\E i \in DOMAIN points : Agree(points[i], call.low))

\* C7 witness: a 2-D tree holding a point of three coordinates returned it for
\* bounds of three coordinates whose third coordinates exclude the point's.
C7_Witness ==
    /\ Asked("rangeSearch") /\ ~threw
    /\ K = 2 /\ Len(points) = 1 /\ Len(points[1]) = 3
    /\ Len(call.low) = 3 /\ Len(call.high) = 3
    /\ call.low[3] > points[1][3]
    /\ result = points

\* C8: the 1-D tree's rangeSearch returns exactly the multiset of the points
\* whose coordinate 0 lies in [low[0], high[0]], and its search is true
\* exactly when a stored point has coordinate 0 equal to p[0].
C8_OneDimensional ==
    K = 1
        => /\ Asked("rangeSearch")
                 => /\ ~threw
                    /\ SameMultiset(result,
                          SelectSeq(points, LAMBDA p : call.low[1] <= p[1] /\ p[1] <= call.high[1]))
           /\ Asked("search")
                 => /\ ~threw
                    /\ found <=> (\E i \in DOMAIN points : points[i][1] = call.low[1])

\* C8 witness: a 1-D tree of three points returned two of them, the root and
\* a point of its left subtree.
C8_Witness ==
    /\ K = 1 /\ Asked("rangeSearch") /\ ~threw
    /\ Len(points) = 3 /\ Len(result) = 2
    /\ <<"L">> \in Range(visited)
    /\ tree[1].root[1].left[1].point \in Range(result)

\* C9: no step changes the caller's point list, and once the tree is built no
\* step, query or return, successful or failing, changes any part of it.
C9_ReadOnly ==
    [][/\ points' = points
       /\ pc = "built" => (pc' = "built" /\ tree' = tree)]_vars

\* C9 witness: a tree of three nodes built from a list that is not in sorted
\* order has answered a query that threw.
C9_Witness ==
    /\ pc = "built" /\ Len(points) = 3
    /\ points[1][1] > points[2][1]
    /\ call # NoCall /\ threw

RECURSIVE PointsUnder(_)
\* The points held by the nodes reachable from node through left and right.
PointsUnder(node) ==
    IF node = Null THEN {}
    ELSE {node[1].point} \cup PointsUnder(node[1].left) \cup PointsUnder(node[1].right)

\* The coordinate the constructor of tree object t sorted by.
SortCoordinate(t) == IF t.K = 1 THEN 0 ELSE t.dimension

RECURSIVE OrderedBelow(_, _, _)
\* Every node reachable from node, and every node of every associated tree
\* below, has its left subtree below it (strictly, or not) and its right
\* subtree not below it, on coordinate key; for an associated tree the
\* coordinate is the dimension it records, or the one it was sorted by.
OrderedBelow(node, key, spec) ==
    \/ node = Null
    \/ LET n == node[1]
       IN  /\ \A p \in PointsUnder(n.left) :
                 IF spec.strict THEN At(p, key) < At(n.point, key)
                                ELSE At(p, key) <= At(n.point, key)
           /\ \A p \in PointsUnder(n.right) : At(p, key) >= At(n.point, key)
           /\ OrderedBelow(n.left, key, spec)
           /\ OrderedBelow(n.right, key, spec)
           /\ \/ n.next_level_tree = Null
              \/ OrderedBelow(n.next_level_tree[1].root,
                              IF spec.recorded THEN n.next_level_tree[1].dimension
                                               ELSE SortCoordinate(n.next_level_tree[1]),
                              spec)

\* C10 as claimed: in every tree, on the coordinate d the tree records, the
\* left subtree of a node is strictly below the node and the right subtree is
\* not below it.
C10_Original ==
    pc = "built"
        => OrderedBelow(tree[1].root, tree[1].dimension, [strict |-> TRUE, recorded |-> TRUE])

\* C10: in every tree, on the coordinate the tree was sorted by, the left
\* subtree of a node is below the node or equal to it, and the right subtree
\* is above the node or equal to it.
C10_WeaklyOrdered ==
    pc = "built"
        => OrderedBelow(tree[1].root, SortCoordinate(tree[1]), [strict |-> FALSE, recorded |-> FALSE])

\* C10 witness: the root of a 2-D tree has two children, and the left one has
\* the root's value on the sort coordinate.
C10_Witness ==
    /\ pc = "built" /\ K = 2 /\ tree[1].root # Null
    /\ LET n == tree[1].root[1]
           d == tree[1].dimension
       IN  /\ n.left # Null /\ n.right # Null
           /\ At(n.left[1].point, d) = At(n.point, d)

RECURSIVE NestedAsClaimed(_, _, _)
\* Every node reachable from node, taken to be at level d of a structure for k
\* coordinates, owns an associated tree of dimension d + 1 over its canonical
\* subset, nested in the same way, if d + 1 < k, and none otherwise.
NestedAsClaimed(node, d, k) ==
    \/ node = Null
    \/ LET n == node[1]
       IN  /\ NestedAsClaimed(n.left, d, k)
           /\ NestedAsClaimed(n.right, d, k)
           /\ IF d + 1 < k
              THEN /\ n.next_level_tree # Null
                   /\ n.next_level_tree[1].dimension = d + 1
                   /\ n.next_level_tree[1].root # Null
                   /\ SameMultiset(n.next_level_tree[1].root[1].canonical_subset,
                                   n.canonical_subset)
                   /\ NestedAsClaimed(n.next_level_tree[1].root, d + 1, k)
              ELSE n.next_level_tree = Null

\* C11: in a structure built by RangeTree<T,K>(points, 0) every node at level
\* d with d + 1 < K owns an associated tree for dimension d + 1 over its
\* canonical subset and the nodes at level K - 1 own none, so that the chain
\* has K levels.
C11_Original ==
    (pc = "built" /\ tree[1].dimension = 0) => NestedAsClaimed(tree[1].root, 0, K)

RECURSIVE TreesBelow(_)
\* The associated tree objects owned by the nodes reachable from node, at
\* every depth of nesting.
TreesBelow(node) ==
    IF node = Null
    THEN {}
    ELSE LET n == node[1]
         IN  TreesBelow(n.left) \cup TreesBelow(n.right)
                 \cup (IF n.next_level_tree = Null
                       THEN {}
                       ELSE {n.next_level_tree[1]}
                                \cup TreesBelow(n.next_level_tree[1].root))

\* Every tree object of the structure: the top-level one and the associated ones.
AllTrees == IF tree = Null THEN {} ELSE {tree[1]} \cup TreesBelow(tree[1].root)

\* The points of pts are in ascending (non-decreasing) order on coordinate key.
Ascending(pts, key) ==
    \A i \in 1..(Len(pts) - 1) : At(pts[i], key) <= At(pts[i + 1], key)

\* C12: every tree of the structure, the associated 1-D trees under a 2-D tree
\* included, is sorted by the coordinate d it records as its dimension (its
\* root's slice is ascending on d) and is ordered as a BST on d.
C12_Original ==
    pc = "built"
        => \A t \in AllTrees :
               /\ t.root # Null => Ascending(t.root[1].canonical_subset, t.dimension)
               /\ OrderedBelow(t.root, t.dimension, [strict |-> FALSE, recorded |-> TRUE])

RECURSIVE PointsOf(_)
\* The points held by the nodes reachable from node (itself and both
\* subtrees), as a sequence: left subtree, node, right subtree.
PointsOf(node) ==
    IF node = Null
    THEN <<>>
    ELSE PointsOf(node[1].left) \o <<node[1].point>> \o PointsOf(node[1].right)

RECURSIVE CanonicalBelow(_, _)
\* Every node reachable from node has as canonical subset the multiset of the
\* points reachable from it, listed in ascending order on coordinate key.
CanonicalBelow(node, key) ==
    \/ node = Null
    \/ LET n == node[1]
       IN  /\ SameMultiset(n.canonical_subset, PointsOf(node))
           /\ Ascending(n.canonical_subset, key)
           /\ CanonicalBelow(n.left, key)
           /\ CanonicalBelow(n.right, key)

\* The canonical subset of the root of tree object t; empty without a root.
RootSubset(t) == IF t.root = Null THEN <<>> ELSE t.root[1].canonical_subset

\* C13: in every tree of the structure every node's canonical subset is the
\* multiset of the points reachable from it, in ascending order on the
\* coordinate the tree was sorted by; the root's canonical subset is the input
\* multiset and the tree has one node per input point.
C13_CanonicalSubsets ==
    pc = "built"
        => /\ \A t \in AllTrees : CanonicalBelow(t.root, SortCoordinate(t))
           /\ SameMultiset(RootSubset(tree[1]), points)
           /\ Len(PointsOf(tree[1].root)) = Len(points)

\* C13 witness: a 2-D tree of three points, given out of order, whose root has
\* two children and a canonical subset that differs from the input list.
C13_Witness ==
    /\ pc = "built" /\ K = 2 /\ Len(points) = 3
    /\ tree[1].root[1].left # Null /\ tree[1].root[1].right # Null
    /\ tree[1].root[1].canonical_subset # points
    /\ tree[1].root[1].left[1].canonical_subset # tree[1].root[1].right[1].canonical_subset

RECURSIVE Height(_)
\* The number of nodes on the longest path from node down to a leaf.
Height(node) ==
    IF node = Null
    THEN 0
    ELSE LET l == Height(node[1].left)
             r == Height(node[1].right)
         IN  1 + (IF l >= r THEN l ELSE r)

\* ceil(log2(m)) for m >= 1: the least h with 2^h >= m.
CeilLog2(m) == CHOOSE h \in 0..m : 2^h >= m /\ \A g \in 0..(h - 1) : 2^g < m

\* The slice a subtree was built from; empty for no subtree.
SliceOf(node) == IF node = Null THEN <<>> ELSE node[1].canonical_subset

RECURSIVE MedianSplitBelow(_)
\* Every node reachable from node, built from a slice of n points, holds the
\* element at offset n / 2 (rounded down) of the slice, has a left subtree
\* built from the elements before it and a right subtree built from the
\* elements after it, and is the root of a subtree of height ceil(log2(n + 1)).
MedianSplitBelow(node) ==
    \/ node = Null
    \/ LET n == node[1]
           slice == n.canonical_subset
           mid == Len(slice) \div 2
       IN  /\ n.point = slice[mid + 1]
           /\ SliceOf(n.left) = SubSeq(slice, 1, mid)
           /\ SliceOf(n.right) = SubSeq(slice, mid + 2, Len(slice))
           /\ Height(node) = CeilLog2(Len(slice) + 1)
           /\ MedianSplitBelow(n.left)
           /\ MedianSplitBelow(n.right)

\* C14: every tree of the structure built over n >= 0 points has height
\* ceil(log2(n + 1)); the node of a slice holds its element at offset
\* (end - begin) / 2, the left child is built from the elements before it and
\* the right child from the elements after it.
C14_MedianSplitHeight ==
    pc = "built"
        => \A t \in AllTrees :
               /\ Height(t.root) = CeilLog2(Len(RootSubset(t)) + 1)
               /\ Len(PointsOf(t.root)) = Len(RootSubset(t))
               /\ MedianSplitBelow(t.root)

\* C14 witness: a 2-D tree over three points, of height 2, and one over two
\* points whose root, the second element, has a left child only.
C14_Witness ==
    /\ pc = "built" /\ K = 2
    /\ \/ Len(points) = 3 /\ Height(tree[1].root) = 2
       \/ /\ Len(points) = 2 /\ Height(tree[1].root) = 2
          /\ tree[1].root[1].left # Null /\ tree[1].root[1].right = Null

RECURSIVE NodeAt(_, _)
\* The node of the top-level BST reached from node by path, a sequence of
\* "L" (left child) and "R" (right child) steps; Null if there is none.
NodeAt(node, path) ==
    IF node = Null \/ path = <<>>
    THEN node
    ELSE NodeAt(IF Head(path) = "L" THEN node[1].left ELSE node[1].right, Tail(path))

\* path is among the nodes the last query visited.
Visited(path) == path \in Range(visited)

\* The last query visits the children of the node at path as the pruning rule
\* on coordinate d prescribes.
ChildrenAsPruned(path, d) ==
    LET n == NodeAt(tree[1].root, path)[1]
        v == At(n.point, d)
        left == Append(path, "L")
        right == Append(path, "R")
    IN  IF v < At(call.low, d)
        THEN /\ ~Visited(left)
             /\ Visited(right) <=> n.right # Null
        ELSE IF v > At(call.high, d)
        THEN /\ Visited(left) <=> n.left # Null
             /\ ~Visited(right)
        ELSE /\ Visited(left) <=> n.left # Null
             /\ Visited(right) <=> n.right # Null

RECURSIVE Appended(_, _)
\* The points the visited nodes vis, in order, contribute to the result: the
\* point of each node that is within the bounds on coordinate d and on all of
\* the first K coordinates.
Appended(vis, d) ==
    IF vis = <<>>
    THEN <<>>
    ELSE LET p == NodeAt(tree[1].root, Head(vis))[1].point
         IN  (IF /\ At(call.low, d) <= At(p, d) /\ At(p, d) <= At(call.high, d)
                 /\ Inside(p, call.low, call.high)
              THEN <<p>>
              ELSE <<>>) \o Appended(Tail(vis), d)

\* C15: rangeSearch visits nodes of the top-level BST only, each at most once,
\* starting at the root; below a visited node it visits only the right child
\* if the node is below low[dim], only the left child if it is above
\* high[dim], and both otherwise; the result is made of the points of the
\* visited nodes that lie within the bounds on all K coordinates.
C15_SingleTraversal ==
    (Asked("rangeSearch") /\ ~threw)
        => LET d == tree[1].dimension
           IN  /\ \A i, j \in DOMAIN visited : visited[i] = visited[j] => i = j
               /\ \A path \in Range(visited) : NodeAt(tree[1].root, path) # Null
               /\ Visited(<<>>) <=> tree[1].root # Null
               /\ \A path \in Range(visited) : ChildrenAsPruned(path, d)
               /\ result = Appended(visited, d)

\* C15 witness: a rangeSearch on a 2-D tree of three points has left a child
\* of the root out, visited the other and returned one point of two visited.
C15_Witness ==
    /\ Asked("rangeSearch") /\ ~threw
    /\ K = 2 /\ Len(points) = 3
    /\ Len(visited) = 2 /\ Len(result) = 1

RECURSIVE PathsBelow(_, _)
\* The paths of the nodes reachable from node, itself reached by path.
PathsBelow(node, path) ==
    IF node = Null
    THEN {}
    ELSE {path} \cup PathsBelow(node[1].left, Append(path, "L"))
                \cup PathsBelow(node[1].right, Append(path, "R"))

\* C16: every tree is ordered on its sort coordinate with equal values allowed
\* on both sides (left subtree <= node <= right subtree), and every node of
\* the queried tree that a rangeSearch did not visit has a sort-coordinate
\* value below low[dim] or above high[dim].
C16_PruningSound ==
    pc = "built"
        => LET d == SortCoordinate(tree[1])
           IN  /\ OrderedBelow(tree[1].root, d, [strict |-> FALSE, recorded |-> FALSE])
               /\ (Asked("rangeSearch") /\ ~threw)
                     => \A path \in PathsBelow(tree[1].root, <<>>) \ Range(visited) :
                            LET v == At(NodeAt(tree[1].root, path)[1].point, d)
                            IN  v < At(call.low, d) \/ v > At(call.high, d)

\* C16 witness: in a 2-D tree of three points the root and its left child have
\* the same value on the sort coordinate, the value is above high[dim], and
\* the rangeSearch has visited the left child and not the right one.
C16_Witness ==
    /\ Asked("rangeSearch") /\ ~threw
    /\ K = 2 /\ Len(points) = 3
    /\ LET d == tree[1].dimension
           n == tree[1].root[1]
       IN  /\ n.left # Null /\ n.right # Null
           /\ At(n.left[1].point, d) = At(n.point, d)
           /\ At(n.point, d) > At(call.high, d)
           /\ At(call.low, d) <= At(call.high, d)
           /\ Visited(<<"L">>) /\ ~Visited(<<"R">>)

\* The answer the tree object t gives to the last query.
Answer(t) ==
    IF call.op = "search" THEN search(t, call.low) ELSE rangeSearch(t, call.low, call.high)

\* C17: the answer to a query, by a tree built with one dim < K, is the answer
\* of every tree built from the same point list with any dim < K: the same
\* multiset of points for rangeSearch, the same boolean for search.
C17_DimIrrelevant ==
    (Asked("rangeSearch") \/ Asked("search"))
        => \A d2 \in 0..(K - 1) :
               \A o \in RangeTree(points, d2, K) :
                   /\ ~o.threw
                   /\ LET a == Answer(o.ptr[1])
                      IN  /\ a.threw = threw
                          /\ SameMultiset(a.result, result)
                          /\ a.found = found

\* C17 witness: a 2-D tree built with dim = 1 has returned one of its two
\* points, and the tree built with dim = 0 has another point at its root.
C17_Witness ==
    /\ Asked("rangeSearch") /\ ~threw
    /\ K = 2 /\ Len(points) = 2 /\ Len(result) = 1
    /\ tree[1].dimension = 1
    /\ \A o \in RangeTree(points, 0, K) : o.ptr[1].root[1].point # tree[1].root[1].point

\* The trees of the structure that have sorted some points.
SortedTrees == {t \in AllTrees : t.root # Null}

\* C18: when the constructor is called with dim = 0 on points of at least K
\* coordinates, every coordinate index that the top-level constructor and the
\* constructors of the associated trees index a point with is below K, and so
\* inside every point; these indices are the sort coordinates of the trees built.
C18_IndicesBelowK ==
    (pc = "built" /\ tree[1].dimension = 0)
        => LET reads == CtorReads(Len(points), 0, K)
           IN  /\ \A i \in reads : i < K /\ \A p \in Range(points) : i < Len(p)
               /\ reads = {SortCoordinate(t) : t \in SortedTrees}

\* C18 witness: a structure for K = 4 built with dim = 0 from two points, in
\* which coordinates 0, 1 and 2 were sorted by.
C18_Witness ==
    /\ pc = "built" /\ K = 4 /\ tree[1].dimension = 0
    /\ Len(points) = 2
    /\ CtorReads(Len(points), 0, K) = {0, 1, 2}

====
